---- MODULE Spec2Model ----
(***************************************************************************)
(* A model of packages/react-reconciler/src/ReactFiberReconciler.js: the   *)
(* root update entry points (updateContainer,                              *)
(* updateContainerAtExpirationTime, scheduleRootUpdate), the context       *)
(* resolver (getContextForSubtree), host resolution (findHostInstance,     *)
(* findHostInstanceWithWarning, getPublicRootInstance) and the devtools    *)
(* bridge (injectIntoDevTools).                                            *)
(* The scheduler, the update queue and the reflection helpers are separate *)
(* modules of the reconciler; they are modelled at their interface.        *)
(***************************************************************************)
EXTENDS Integers, Sequences, FiniteSets, TLC

\* ---------------------------------------------------------------- bounds
MaxCalls == 3      \* update calls made on the root in one behaviour
MaxDepth == 2      \* nesting depth of update calls (a call made inside a call)
MaxVaried == 1    \* calls of one behaviour that differ from the plain mount request

\* ------------------------------------------------------- values and inputs
Sync == 1          \* the most urgent deadline
AsyncOffset == 2   \* offset added to the current time outside a sync scope

Elements == {"T1", "H1", "null"}   \* a class component, a host element; "null" unmounts
Callbacks == {"undefined", "cb", "notfn"}        \* absent, a function, a non-callable value
Parents == {"none", "plain", "provider", "foreign", "stale"}
Components == {"comp", "foreign", "stale"}
Times == {0}                                     \* answers of requestCurrentTime()
ExpTimes == {Sync} \cup {t + AsyncOffset : t \in Times}

emptyContextObject == "empty"
NoContext == "null"

\* The calls a behaviour makes: the plain mount request and every request that
\* differs from it in one argument.
Default == [element |-> "T1", parent |-> "none", callback |-> "undefined"]
CallShapes ==
  {[Default EXCEPT !.element = e] : e \in Elements}
    \cup {[Default EXCEPT !.parent = p] : p \in Parents}
    \cup {[Default EXCEPT !.callback = c] : c \in Callbacks}

NoUpdate == [id |-> 0, expirationTime |-> 0, payload |-> "none", callback |-> "null"]
NoFind == [fn |-> "none", component |-> "none", outcome |-> "none"]

\* Handles of components of another, mounted tree that has strict-mode parts:
\* a component inside the strict part, a component that renders the strict
\* part, and a component inside the strict part whose type has no name.
StrictHandles == {"strictChild", "strictParent", "strictAnon"}
ComponentNames == {"Widget", "Component"}
HostInstances == {"domPlain", "domComp", "domUnknown"}

VARIABLES
  context,          \* container.context
  pendingContext,   \* container.pendingContext
  queue,            \* update queue of container.current (shared with its alternate)
  stack,            \* active update calls, innermost last
  nextId,           \* number of update calls made so far
  workPending,      \* scheduleWork has requested a pass that has not begun
  passState,        \* "idle" | "render" | "complete"
  passOwner,        \* stack depth at which the pass in flight was begun
  wip,              \* records taken by the pass in flight
  applied,          \* ids of the records the passes have applied, in order
  committed,        \* a reconciliation has committed for this root
  passivePending,   \* deferred side effects of a previous commit are outstanding
  inst,             \* "never" | "mounted" | "unmounted": the component of T1
  child,            \* container.current.child: "none" | "class" | "host"
  didWarnAboutNestedUpdates,
  warned,           \* how often each diagnostic has been emitted
  didWarnAboutFindNodeInStrictMode,   \* component names already warned about
  injected,         \* the devtools registration: lookup is "none" | "withLookup" |
                    \* "withoutLookup", registered is the inspection tool's answer
  found,            \* outcome of the latest lookup call
  varied,           \* number of calls made that differ from the plain mount request
  calls             \* per call id: the call it was made inside (0: none) and how it ended

vars == <<context, pendingContext, queue, stack, nextId, workPending, passState,
          passOwner, wip, applied, committed, passivePending, inst,
          child, didWarnAboutNestedUpdates, warned, found, calls, varied,
          didWarnAboutFindNodeInStrictMode, injected>>

rootVars == <<context, pendingContext>>
passVars == <<passState, passOwner, wip, applied, committed, inst, child>>
toolVars == <<didWarnAboutFindNodeInStrictMode, injected>>
devVars == <<didWarnAboutNestedUpdates, warned, varied, toolVars>>

Top == stack[Len(stack)]
SetTop(f) == [stack EXCEPT ![Len(stack)] = f]
Pop == SubSeq(stack, 1, Len(stack) - 1)

\* ------------------------------------------------------ ReactInstanceMap
\* getInstance(component): the fiber a handle is associated with.
getInstance(component) ==
  CASE component = "plain" -> "fiberPlain"
    [] component = "provider" -> "fiberProvider"
    [] component = "comp" -> IF inst = "never" THEN "undefined" ELSE "fiberComp"
    [] component = "strictChild" -> "fiberStrictChild"
    [] component = "strictParent" -> "fiberStrictParent"
    [] component = "strictAnon" -> "fiberStrictAnon"
    [] OTHER -> "undefined"

\* typeof component.render === 'function'
hasRender(component) == component \in {"comp", "plain", "provider", "stale"} \cup StrictHandles

\* ------------------------------------------------------ context resolver
findCurrentUnmaskedContext(fiber) ==
  IF fiber = "undefined" THEN "NotAComponent" ELSE "ctxParent"

isLegacyContextProvider(fiber) == fiber = "fiberProvider"

processChildContext(fiber, parentContext) == "ctxChild"

isClassComponent(fiber) == fiber \in {"fiberPlain", "fiberProvider", "fiberComp"}

\* Faulty variant: a handle with no internal association resolves to the empty
\* context instead of failing.
getContextForSubtreeLenient(parentComponent) ==
  IF parentComponent = "none" THEN emptyContextObject
  ELSE LET fiber == getInstance(parentComponent)
       IN IF fiber = "undefined" THEN emptyContextObject
          ELSE IF isClassComponent(fiber) /\ isLegacyContextProvider(fiber)
               THEN processChildContext(fiber, findCurrentUnmaskedContext(fiber))
               ELSE findCurrentUnmaskedContext(fiber)

\* Faulty variant: an absent parent resolves to a new empty object.
getContextForSubtreeFresh(parentComponent) ==
  IF parentComponent = "none" THEN "newEmptyObject"
  ELSE LET fiber == getInstance(parentComponent)
           parentContext == findCurrentUnmaskedContext(fiber)
       IN IF parentContext = "NotAComponent" THEN "NotAComponent"
          ELSE IF isClassComponent(fiber) /\ isLegacyContextProvider(fiber)
               THEN processChildContext(fiber, parentContext)
               ELSE parentContext

getContextForSubtree(parentComponent) ==
  IF parentComponent = "none" THEN emptyContextObject
  ELSE LET fiber == getInstance(parentComponent)
           parentContext == findCurrentUnmaskedContext(fiber)
       IN IF parentContext = "NotAComponent" THEN "NotAComponent"
          ELSE IF isClassComponent(fiber) /\ isLegacyContextProvider(fiber)
               THEN processChildContext(fiber, parentContext)
               ELSE parentContext

\* ------------------------------------------------------ priority clock
\* Faulty variant: the synchronous scope gets the later deadline.
computeExpirationForFiberInverted(currentTime, sync) ==
  IF sync THEN currentTime + AsyncOffset ELSE Sync

computeExpirationForFiber(currentTime, sync) ==
  IF sync THEN Sync ELSE currentTime + AsyncOffset

\* ------------------------------------------------------ update entry points
\* entry: the entry point the call came in by, with the current time it read
\* and whether it was made inside a synchronous batching scope.
NewFrame(element, parent, callback, expirationTime, origin, entry) ==
  [id |-> nextId + 1, pc |-> "ctx", element |-> element, parent |-> parent,
   callback |-> callback, expirationTime |-> expirationTime, origin |-> origin,
   entry |-> entry, ctx |-> NoContext, scheduled |-> 0,
   update |-> NoUpdate, nEnq |-> 0, nSched |-> 0, ret |-> 0, err |-> "none",
   pre |-> [context |-> context, pendingContext |-> pendingContext,
            queue |-> queue, workPending |-> workPending]]

\* The plain mount request: T1, no parent, no callback, outside a sync scope at
\* time 0.
IsPlain(element, parent, callback, expirationTime) ==
  /\ [element |-> element, parent |-> parent, callback |-> callback] = Default
  /\ expirationTime = computeExpirationForFiber(0, FALSE)

\* The callers' budget of requests other than the plain mount request.
Vary(plain) ==
  IF plain THEN varied' = varied
  ELSE varied < MaxVaried /\ varied' = varied + 1

\* Where a call can come from: an outside caller, a deferred side effect run by
\* flushPassiveEffects inside another call, or a component's render.
CanCall(origin) ==
  /\ nextId < MaxCalls
  /\ Len(stack) < MaxDepth
  /\ CASE origin = "top" -> stack = <<>>
       [] origin = "effect" -> stack # <<>> /\ Top.pc = "inFlush"
       [] origin = "render" -> passState = "render" /\ Len(stack) = passOwner

\* A call made by a side effect or by a render passes a parent that resolves.
CallInputs(parent, origin) ==
  origin # "top" => parent \in {"none", "plain", "provider"}

Enter(element, parent, callback, expirationTime, origin, entry) ==
  /\ CanCall(origin)
  /\ CallInputs(parent, origin)
  /\ stack' = Append(stack, NewFrame(element, parent, callback, expirationTime, origin, entry))
  /\ UNCHANGED <<didWarnAboutNestedUpdates, warned, toolVars>>
  /\ nextId' = nextId + 1
  /\ calls' = Append(calls, [outer |-> IF stack = <<>> THEN 0 ELSE Top.id,
                             state |-> "active"])
  /\ found' = NoFind
  /\ UNCHANGED <<rootVars, queue, workPending, passVars, passivePending>>

updateContainer(element, parent, callback, currentTime, sync, origin) ==
  LET expirationTime == computeExpirationForFiber(currentTime, sync)
  IN Enter(element, parent, callback, expirationTime, origin,
           [fn |-> "updateContainer", currentTime |-> currentTime, sync |-> sync])

updateContainerAtExpirationTime(element, parent, expirationTime, callback, origin) ==
  Enter(element, parent, callback, expirationTime, origin,
        [fn |-> "updateContainerAtExpirationTime", currentTime |-> 0, sync |-> FALSE])

\* Faulty variant: the resolved context is always written to context.
StageContextAlwaysContext ==
  /\ stack # <<>> /\ Top.pc = "ctx"
  /\ LET ctx == getContextForSubtree(Top.parent)
     IN IF ctx = "NotAComponent"
        THEN /\ stack' = SetTop([Top EXCEPT !.pc = "threw", !.err = "NotAComponent"])
             /\ UNCHANGED rootVars
        ELSE /\ stack' = SetTop([Top EXCEPT !.pc = "create", !.ctx = ctx])
             /\ context' = ctx /\ UNCHANGED pendingContext
  /\ found' = NoFind
  /\ UNCHANGED calls
  /\ UNCHANGED <<queue, nextId, workPending, passVars, passivePending, devVars>>

\* Faulty variant: staging is skipped when the resolved context is the one the
\* root already has.
StageContextSkipsSame ==
  /\ stack # <<>> /\ Top.pc = "ctx"
  /\ LET ctx == getContextForSubtree(Top.parent)
     IN IF ctx = "NotAComponent"
        THEN /\ stack' = SetTop([Top EXCEPT !.pc = "threw", !.err = "NotAComponent"])
             /\ UNCHANGED rootVars
        ELSE /\ stack' = SetTop([Top EXCEPT !.pc = "create", !.ctx = ctx])
             /\ IF context = NoContext
                THEN context' = ctx /\ UNCHANGED pendingContext
                ELSE IF ctx = context THEN UNCHANGED rootVars
                ELSE pendingContext' = ctx /\ UNCHANGED context
  /\ found' = NoFind
  /\ UNCHANGED calls
  /\ UNCHANGED <<queue, nextId, workPending, passVars, passivePending, devVars>>

\* Lines 201-209: resolve the context, then stage it on the root.
StageContext ==
  /\ stack # <<>> /\ Top.pc = "ctx"
  /\ LET ctx == getContextForSubtree(Top.parent)
     IN IF ctx = "NotAComponent"
        THEN /\ stack' = SetTop([Top EXCEPT !.pc = "threw", !.err = "NotAComponent"])
             /\ UNCHANGED rootVars
        ELSE /\ stack' = SetTop([Top EXCEPT !.pc = "create", !.ctx = ctx])
             /\ IF context = NoContext
                THEN context' = ctx /\ UNCHANGED pendingContext
                ELSE pendingContext' = ctx /\ UNCHANGED context
  /\ found' = NoFind
  /\ UNCHANGED calls
  /\ UNCHANGED <<queue, nextId, workPending, passVars, passivePending, devVars>>

\* Faulty variant: the record is enqueued as soon as it is created, before the
\* flush.
CreateUpdateEnqueuesEarly ==
  /\ stack # <<>> /\ Top.pc = "create"
  /\ LET nested == Top.origin = "render" /\ ~didWarnAboutNestedUpdates
         callback == IF Top.callback = "undefined" THEN "null" ELSE Top.callback
         update == [id |-> Top.id, expirationTime |-> Top.expirationTime,
                    payload |-> Top.element, callback |-> callback]
     IN /\ didWarnAboutNestedUpdates' = (didWarnAboutNestedUpdates \/ nested)
        /\ warned' = [warned EXCEPT
                        !["nested"] = @ + (IF nested THEN 1 ELSE 0),
                        !["callback"] = @ + (IF callback = "notfn" THEN 1 ELSE 0)]
        /\ stack' = SetTop([Top EXCEPT !.pc = "flush", !.update = update])
        /\ queue' = Append(queue, update)
  /\ found' = NoFind
  /\ UNCHANGED calls
  /\ UNCHANGED <<rootVars, nextId, workPending, passVars, passivePending, varied, toolVars>>

\* Faulty variant: a callback that is not callable is warned about and dropped.
CreateUpdateValidates ==
  /\ stack # <<>> /\ Top.pc = "create"
  /\ LET nested == Top.origin = "render" /\ ~didWarnAboutNestedUpdates
         callback == IF Top.callback = "undefined" THEN "null" ELSE Top.callback
         update == [id |-> Top.id, expirationTime |-> Top.expirationTime,
                    payload |-> Top.element,
                    callback |-> IF callback = "notfn" THEN "null" ELSE callback]
     IN /\ didWarnAboutNestedUpdates' = (didWarnAboutNestedUpdates \/ nested)
        /\ warned' = [warned EXCEPT
                        !["nested"] = @ + (IF nested THEN 1 ELSE 0),
                        !["callback"] = @ + (IF callback = "notfn" THEN 1 ELSE 0)]
        /\ stack' = SetTop([Top EXCEPT !.pc = "flush", !.update = update])
  /\ found' = NoFind
  /\ UNCHANGED calls
  /\ UNCHANGED <<rootVars, queue, nextId, workPending, passVars, passivePending, varied, toolVars>>

\* Faulty variant: a call made from a render is rejected after the warning.
CreateUpdateBlocksNested ==
  /\ stack # <<>> /\ Top.pc = "create"
  /\ LET nested == Top.origin = "render" /\ ~didWarnAboutNestedUpdates
         callback == IF Top.callback = "undefined" THEN "null" ELSE Top.callback
         update == [id |-> Top.id, expirationTime |-> Top.expirationTime,
                    payload |-> Top.element, callback |-> callback]
     IN /\ didWarnAboutNestedUpdates' = (didWarnAboutNestedUpdates \/ nested)
        /\ warned' = [warned EXCEPT
                        !["nested"] = @ + (IF nested THEN 1 ELSE 0),
                        !["callback"] = @ + (IF callback = "notfn" THEN 1 ELSE 0)]
        /\ IF Top.origin = "render"
           THEN stack' = SetTop([Top EXCEPT !.pc = "threw", !.err = "nested"])
           ELSE stack' = SetTop([Top EXCEPT !.pc = "flush", !.update = update])
  /\ found' = NoFind
  /\ UNCHANGED calls
  /\ UNCHANGED <<rootVars, queue, nextId, workPending, passVars, passivePending, varied, toolVars>>

\* Lines 132-166: the nested-update warning, createUpdate, payload, callback.
CreateUpdate ==
  /\ stack # <<>> /\ Top.pc = "create"
  /\ LET nested == Top.origin = "render" /\ ~didWarnAboutNestedUpdates
         callback == IF Top.callback = "undefined" THEN "null" ELSE Top.callback
         update == [id |-> Top.id, expirationTime |-> Top.expirationTime,
                    payload |-> Top.element, callback |-> callback]
     IN /\ didWarnAboutNestedUpdates' = (didWarnAboutNestedUpdates \/ nested)
        /\ warned' = [warned EXCEPT
                        !["nested"] = @ + (IF nested THEN 1 ELSE 0),
                        !["callback"] = @ + (IF callback = "notfn" THEN 1 ELSE 0)]
        /\ stack' = SetTop([Top EXCEPT !.pc = "flush", !.update = update])
  /\ found' = NoFind
  /\ UNCHANGED calls
  /\ UNCHANGED <<rootVars, queue, nextId, workPending, passVars, passivePending, varied, toolVars>>

\* Line 168: flushPassiveEffects(). Outstanding effects run inside the call.
FlushPassiveEffects ==
  /\ stack # <<>> /\ Top.pc = "flush"
  /\ stack' = SetTop([Top EXCEPT !.pc = IF passivePending THEN "inFlush" ELSE "enqueue"])
  /\ passivePending' = FALSE
  /\ found' = NoFind
  /\ UNCHANGED calls
  /\ UNCHANGED <<rootVars, queue, nextId, workPending, passVars, devVars>>

FlushReturns ==
  /\ stack # <<>> /\ Top.pc = "inFlush"
  /\ stack' = SetTop([Top EXCEPT !.pc = "enqueue"])
  /\ found' = NoFind
  /\ UNCHANGED calls
  /\ UNCHANGED <<rootVars, queue, nextId, workPending, passVars, passivePending, devVars>>

\* Faulty variant: an unmount request (null description) is not enqueued.
EnqueueUpdateSkipsNull ==
  /\ stack # <<>> /\ Top.pc = "enqueue"
  /\ IF Top.element = "null"
     THEN /\ UNCHANGED queue
          /\ stack' = SetTop([Top EXCEPT !.pc = "schedule"])
     ELSE /\ queue' = Append(queue, Top.update)
          /\ stack' = SetTop([Top EXCEPT !.pc = "schedule", !.nEnq = @ + 1])
  /\ found' = NoFind
  /\ UNCHANGED calls
  /\ UNCHANGED <<rootVars, nextId, workPending, passVars, passivePending, devVars>>

\* Faulty variant: the record is put at the front of the queue.
EnqueueUpdateAtFront ==
  /\ stack # <<>> /\ Top.pc = "enqueue"
  /\ queue' = <<Top.update>> \o queue
  /\ stack' = SetTop([Top EXCEPT !.pc = "schedule", !.nEnq = @ + 1])
  /\ found' = NoFind
  /\ UNCHANGED calls
  /\ UNCHANGED <<rootVars, nextId, workPending, passVars, passivePending, devVars>>

\* Faulty variant: scheduling is requested first; the record is left for
\* later and is not in the queue when scheduleWork is invoked.
EnqueueUpdateAfterRequest ==
  /\ stack # <<>> /\ Top.pc = "enqueue"
  /\ workPending' = TRUE
  /\ stack' = SetTop([Top EXCEPT !.pc = "schedule", !.nEnq = @ + 1])
  /\ found' = NoFind
  /\ UNCHANGED calls
  /\ UNCHANGED <<rootVars, queue, nextId, passVars, passivePending, devVars>>

\* Line 171: enqueueUpdate(current, update).
EnqueueUpdate ==
  /\ stack # <<>> /\ Top.pc = "enqueue"
  /\ queue' = Append(queue, Top.update)
  /\ stack' = SetTop([Top EXCEPT !.pc = "schedule", !.nEnq = @ + 1])
  /\ found' = NoFind
  /\ UNCHANGED calls
  /\ UNCHANGED <<rootVars, nextId, workPending, passVars, passivePending, devVars>>

\* Faulty variant: no scheduling is requested while a pass is in flight.
ScheduleWorkSkipsInFlight ==
  /\ stack # <<>> /\ Top.pc = "schedule"
  /\ workPending' = (workPending \/ passState = "idle")
  /\ stack' = SetTop([Top EXCEPT !.pc = "inSchedule", !.nSched = @ + 1,
                                 !.scheduled = Top.expirationTime])
  /\ found' = NoFind
  /\ UNCHANGED calls
  /\ UNCHANGED <<rootVars, queue, nextId, passVars, passivePending, devVars>>

\* Faulty variant: scheduling is always requested at the most urgent deadline.
ScheduleWorkAlwaysSync ==
  /\ stack # <<>> /\ Top.pc = "schedule"
  /\ workPending' = TRUE
  /\ stack' = SetTop([Top EXCEPT !.pc = "inSchedule", !.nSched = @ + 1,
                                 !.scheduled = Sync])
  /\ found' = NoFind
  /\ UNCHANGED calls
  /\ UNCHANGED <<rootVars, queue, nextId, passVars, passivePending, devVars>>

\* Line 174: scheduleWork(current, expirationTime).
ScheduleWork ==
  /\ stack # <<>> /\ Top.pc = "schedule"
  /\ workPending' = TRUE
  /\ stack' = SetTop([Top EXCEPT !.pc = "inSchedule", !.nSched = @ + 1,
                                 !.scheduled = Top.expirationTime])
  /\ found' = NoFind
  /\ UNCHANGED calls
  /\ UNCHANGED <<rootVars, queue, nextId, passVars, passivePending, devVars>>

\* Line 176: scheduleWork has returned; the call returns expirationTime.
ScheduleReturns ==
  /\ stack # <<>> /\ Top.pc = "inSchedule"
  /\ ~(passState # "idle" /\ passOwner = Len(stack))
  /\ stack' = SetTop([Top EXCEPT !.pc = "done", !.ret = Top.expirationTime])
  /\ found' = NoFind
  /\ UNCHANGED calls
  /\ UNCHANGED <<rootVars, queue, nextId, workPending, passVars, passivePending, devVars>>

Return ==
  /\ stack # <<>> /\ Top.pc \in {"done", "threw"}
  /\ stack' = Pop
  /\ calls' = [calls EXCEPT ![Top.id].state = IF Top.pc = "done" THEN "returned" ELSE "threw"]
  /\ found' = NoFind
  /\ UNCHANGED <<rootVars, queue, nextId, workPending, passVars, passivePending, devVars>>

\* ------------------------------------------------------ scheduler, passes
\* A pass runs when no call is active, or synchronously inside the
\* scheduleWork of a call that was not made from a render.
CanWork ==
  IF stack = <<>> THEN TRUE
  ELSE Top.pc = "inSchedule" /\ Top.origin # "render"

BeginPass ==
  /\ CanWork /\ workPending /\ passState = "idle"
  /\ passState' = "render"
  /\ passOwner' = Len(stack)
  /\ wip' = queue
  /\ workPending' = FALSE
  /\ found' = NoFind
  /\ UNCHANGED calls
  /\ UNCHANGED <<rootVars, queue, stack, nextId, applied, committed, inst, child,
                 passivePending, devVars>>

RenderPass ==
  /\ passState = "render" /\ Len(stack) = passOwner
  /\ passState' = "complete"
  /\ applied' = applied \o [i \in 1..Len(wip) |-> wip[i].id]
  /\ found' = NoFind
  /\ UNCHANGED calls
  /\ UNCHANGED <<rootVars, queue, stack, nextId, workPending, passOwner, wip,
                 committed, inst, child, passivePending, devVars>>

CommitPass ==
  /\ passState = "complete" /\ Len(stack) = passOwner
  /\ passState' = "idle"
  /\ passOwner' = 0
  /\ queue' = SubSeq(queue, Len(wip) + 1, Len(queue))
  /\ wip' = <<>>
  /\ IF pendingContext # NoContext
     THEN context' = pendingContext /\ pendingContext' = NoContext
     ELSE UNCHANGED rootVars
  /\ committed' = TRUE
  /\ inst' = IF wip = <<>> THEN inst
             ELSE IF wip[Len(wip)].payload = "T1" THEN "mounted"
             ELSE IF inst = "mounted" THEN "unmounted" ELSE inst
  /\ child' = IF wip = <<>> THEN child
              ELSE CASE wip[Len(wip)].payload = "T1" -> "class"
                     [] wip[Len(wip)].payload = "H1" -> "host"
                     [] OTHER -> "none"
  /\ passivePending' \in {passivePending, TRUE}
  /\ found' = NoFind
  /\ UNCHANGED calls
  /\ UNCHANGED <<stack, nextId, workPending, applied, devVars>>

\* The scheduler runs the outstanding deferred side effects on its own.
RunPassiveEffects ==
  /\ stack = <<>> /\ passivePending /\ passState = "idle"
  /\ passivePending' = FALSE
  /\ found' = NoFind
  /\ UNCHANGED calls
  /\ UNCHANGED <<rootVars, queue, stack, nextId, workPending, passVars, devVars>>

\* ------------------------------------------------------ host resolution
\* findCurrentHostFiber(fiber): the nearest current host node, or null.
findCurrentHostFiber(fiber) ==
  CASE fiber = "fiberPlain" -> "hostPlain"
    [] fiber = "fiberComp" -> IF inst = "mounted" THEN "hostComp" ELSE "null"
    [] fiber \in {"fiberStrictChild", "fiberStrictParent", "fiberStrictAnon"} -> "hostStrict"
    [] OTHER -> "null"

stateNode(hostFiber) ==
  CASE hostFiber = "hostPlain" -> "domPlain"
    [] hostFiber = "hostComp" -> "domComp"
    [] hostFiber = "hostStrict" -> "domStrict"
    [] OTHER -> "TypeError"

\* Faulty variant: every unassociated handle gets the unmounted-component
\* message.
findHostInstanceOneMessage(component) ==
  LET fiber == getInstance(component)
  IN IF fiber = "undefined"
     THEN "Invariant: Unable to find node on an unmounted component."
     ELSE LET hostFiber == findCurrentHostFiber(fiber)
          IN IF hostFiber = "null" THEN "null" ELSE stateNode(hostFiber)

\* Faulty variant: the host node is dereferenced without the null test.
findHostInstanceNoNullTest(component) ==
  LET fiber == getInstance(component)
  IN IF fiber = "undefined"
     THEN IF hasRender(component)
          THEN "Invariant: Unable to find node on an unmounted component."
          ELSE "Invariant: Argument appears to not be a ReactComponent."
     ELSE stateNode(findCurrentHostFiber(fiber))

findHostInstance(component) ==
  LET fiber == getInstance(component)
  IN IF fiber = "undefined"
     THEN IF hasRender(component)
          THEN "Invariant: Unable to find node on an unmounted component."
          ELSE "Invariant: Argument appears to not be a ReactComponent."
     ELSE LET hostFiber == findCurrentHostFiber(fiber)
          IN IF hostFiber = "null" THEN "null" ELSE stateNode(hostFiber)

FindHostInstance(component) ==
  /\ stack = <<>> /\ passState = "idle"
  /\ found' = [fn |-> "findHostInstance", component |-> component,
                outcome |-> findHostInstance(component)]
  /\ UNCHANGED calls
  /\ UNCHANGED <<rootVars, queue, stack, nextId, workPending, passVars,
                 passivePending, devVars>>

\* fiber.mode & StrictMode, and getComponentName(fiber.type).
isStrictMode(fiber) == fiber \in {"fiberStrictChild", "fiberStrictAnon", "hostStrict"}
getComponentName(fiber) ==
  IF fiber \in {"fiberStrictChild", "fiberStrictParent"} THEN "Widget" ELSE "null"

\* Faulty variant: the host node itself is returned instead of its instance.
findHostInstanceWithWarningHostFiber(component) ==
  LET fiber == getInstance(component)
  IN IF fiber = "undefined"
     THEN IF hasRender(component)
          THEN "Invariant: Unable to find node on an unmounted component."
          ELSE "Invariant: Argument appears to not be a ReactComponent."
     ELSE LET hostFiber == findCurrentHostFiber(fiber)
          IN IF hostFiber = "null" THEN "null"
             ELSE IF isStrictMode(hostFiber) THEN hostFiber ELSE stateNode(hostFiber)

\* Lines 235-294, development build: what the call returns or fails with.
findHostInstanceWithWarning(component) ==
  LET fiber == getInstance(component)
  IN IF fiber = "undefined"
     THEN IF hasRender(component)
          THEN "Invariant: Unable to find node on an unmounted component."
          ELSE "Invariant: Argument appears to not be a ReactComponent."
     ELSE LET hostFiber == findCurrentHostFiber(fiber)
          IN IF hostFiber = "null" THEN "null" ELSE stateNode(hostFiber)

\* Lines 256-260: the component name a strict-mode warning is keyed by, "none"
\* when the call reaches no strict-mode host node.
strictModeKey(component) ==
  LET fiber == getInstance(component)
      hostFiber == findCurrentHostFiber(fiber)
  IN IF fiber = "undefined" \/ hostFiber = "null" \/ ~isStrictMode(hostFiber)
     THEN "none"
     ELSE IF getComponentName(fiber) = "null" THEN "Component"
          ELSE getComponentName(fiber)

\* Faulty variant: the name warned about is not recorded.
FindHostInstanceWithWarningNoRecord(component) ==
  /\ stack = <<>> /\ passState = "idle"
  /\ found' = [fn |-> "findHostInstanceWithWarning", component |-> component,
                outcome |-> findHostInstanceWithWarning(component)]
  /\ LET componentName == strictModeKey(component)
     IN IF componentName # "none" /\ componentName \notin didWarnAboutFindNodeInStrictMode
        THEN /\ warned[componentName] < MaxCalls
             /\ warned' = [warned EXCEPT ![componentName] = @ + 1]
        ELSE UNCHANGED warned
  /\ UNCHANGED <<didWarnAboutFindNodeInStrictMode, calls>>
  /\ UNCHANGED <<rootVars, queue, stack, nextId, workPending, passVars,
                 passivePending, didWarnAboutNestedUpdates, varied, injected>>

FindHostInstanceWithWarning(component) ==
  /\ stack = <<>> /\ passState = "idle"
  /\ found' = [fn |-> "findHostInstanceWithWarning", component |-> component,
                outcome |-> findHostInstanceWithWarning(component)]
  /\ LET componentName == strictModeKey(component)
     IN IF componentName # "none" /\ componentName \notin didWarnAboutFindNodeInStrictMode
        THEN /\ didWarnAboutFindNodeInStrictMode' =
                  didWarnAboutFindNodeInStrictMode \cup {componentName}
             /\ warned' = [warned EXCEPT ![componentName] = @ + 1]
        ELSE UNCHANGED <<didWarnAboutFindNodeInStrictMode, warned>>
  /\ UNCHANGED calls
  /\ UNCHANGED <<rootVars, queue, stack, nextId, workPending, passVars,
                 passivePending, didWarnAboutNestedUpdates, varied, injected>>

\* ------------------------------------------------------ devtools bridge
\* The renderer's own reverse lookup, from a host instance to its node.
findFiberByHostInstance(instance) ==
  CASE instance = "domPlain" -> "hostPlain"
    [] instance = "domComp" -> "hostComp"
    [] OTHER -> "null"

\* Faulty variant: the supplied reverse lookup is called without the test for
\* its presence.
registeredLookupUnguarded(instance) ==
  IF injected.lookup = "withLookup" THEN findFiberByHostInstance(instance)
  ELSE "TypeError"

\* Lines 386-392: the reverse lookup that injectIntoDevTools registers.
registeredLookup(instance) ==
  IF injected.lookup # "withLookup" THEN "null"
  ELSE findFiberByHostInstance(instance)

\* Lines 376-394: injectIntoDevTools(devToolsConfig); registered is what
\* injectInternals answers.
InjectIntoDevTools(hasLookup, registered) ==
  /\ stack = <<>> /\ passState = "idle" /\ injected.lookup = "none"
  /\ injected' = [lookup |-> IF hasLookup THEN "withLookup" ELSE "withoutLookup",
                   registered |-> registered]
  /\ found' = [fn |-> "injectIntoDevTools", component |-> "devToolsConfig",
                outcome |-> IF registered THEN "true" ELSE "false"]
  /\ UNCHANGED calls
  /\ UNCHANGED <<rootVars, queue, stack, nextId, workPending, passVars,
                 passivePending, didWarnAboutNestedUpdates, warned, varied,
                 didWarnAboutFindNodeInStrictMode>>

\* The inspection tool calls the registered reverse lookup.
ReverseLookup(instance) ==
  /\ stack = <<>> /\ passState = "idle" /\ injected.lookup # "none"
  /\ found' = [fn |-> "findFiberByHostInstance", component |-> instance,
                outcome |-> registeredLookup(instance)]
  /\ UNCHANGED calls
  /\ UNCHANGED <<rootVars, queue, stack, nextId, workPending, passVars,
                 passivePending, devVars>>

\* ------------------------------------------------------ public root instance
\* The backing value of the root's child: the component instance of a class
\* component, the host instance of a host element.
childStateNode == IF child = "class" THEN "comp" ELSE "domRoot"

\* The host environment's getPublicInstance(instance).
getPublicInstance(instance) == IF instance = "domRoot" THEN "publicDomRoot" ELSE "TypeError"

\* Faulty variant: the host instance is returned as it is.
getPublicRootInstanceRaw ==
  IF child = "none" THEN "null" ELSE childStateNode

\* Lines 347-360.
getPublicRootInstance ==
  IF child = "none" THEN "null"
  ELSE CASE child = "host" -> getPublicInstance(childStateNode)
         [] OTHER -> childStateNode

GetPublicRootInstance ==
  /\ stack = <<>> /\ passState = "idle"
  /\ found' = [fn |-> "getPublicRootInstance", component |-> "container",
                outcome |-> getPublicRootInstance]
  /\ UNCHANGED calls
  /\ UNCHANGED <<rootVars, queue, stack, nextId, workPending, passVars,
                 passivePending, devVars>>

\* ------------------------------------------------------ specification
Init ==
  /\ context = NoContext
  /\ pendingContext = NoContext
  /\ queue = <<>>
  /\ stack = <<>>
  /\ nextId = 0
  /\ workPending = FALSE
  /\ passState = "idle"
  /\ passOwner = 0
  /\ wip = <<>>
  /\ applied = <<>>
  /\ committed = FALSE
  /\ passivePending = FALSE
  /\ inst = "never"
  /\ child = "none"
  /\ didWarnAboutNestedUpdates = FALSE
  /\ warned = [k \in {"nested", "callback"} \cup ComponentNames |-> 0]
  /\ found = NoFind
  /\ calls = <<>>
  /\ varied = 0
  /\ didWarnAboutFindNodeInStrictMode = {}
  /\ injected = [lookup |-> "none", registered |-> FALSE]

Origins == {"top", "effect", "render"}

Next ==
  \/ \E a \in CallShapes, t \in Times, s \in BOOLEAN, o \in Origins :
        /\ (s => a = Default)
        /\ Vary(IsPlain(a.element, a.parent, a.callback, computeExpirationForFiber(t, s)))
        /\ updateContainer(a.element, a.parent, a.callback, t, s, o)
  \/ \E t \in ExpTimes, o \in Origins :
        /\ Vary(FALSE)
        /\ updateContainerAtExpirationTime(Default.element, Default.parent, t,
                                           Default.callback, o)
  \/ StageContext
  \/ CreateUpdate
  \/ FlushPassiveEffects
  \/ FlushReturns
  \/ EnqueueUpdate
  \/ ScheduleWork
  \/ ScheduleReturns
  \/ Return
  \/ BeginPass
  \/ RenderPass
  \/ CommitPass
  \/ RunPassiveEffects
  \/ \E h \in Components : FindHostInstance(h)
  \/ GetPublicRootInstance

Spec == Init /\ [][Next]_vars

\* The development build's diagnostics: host lookups with the strict-mode
\* warning on a root that outside callers and renders mount with T1, with and
\* without a callback that is not callable, and unmount.
NextDev ==
  \/ \E e \in {"T1", "null"}, c \in {"undefined", "notfn"}, o \in {"top", "render"} :
        /\ (e = "null" => c = "undefined")
        /\ Vary(e = "T1")
        /\ updateContainer(e, "none", c, 0, FALSE, o)
  \/ StageContext
  \/ CreateUpdate
  \/ FlushPassiveEffects
  \/ FlushReturns
  \/ EnqueueUpdate
  \/ ScheduleWork
  \/ ScheduleReturns
  \/ Return
  \/ BeginPass
  \/ RenderPass
  \/ CommitPass
  \/ RunPassiveEffects
  \/ \E h \in Components \cup StrictHandles : FindHostInstanceWithWarning(h)

SpecDev == Init /\ [][NextDev]_vars

\* The calls of a renderer and its inspection tool on a root before its first
\* update: the devtools registration, reverse lookups and host lookups.
NextTools ==
  \/ \E l, r \in BOOLEAN : InjectIntoDevTools(l, r)
  \/ \E i \in HostInstances : ReverseLookup(i)
  \/ \E h \in Components \cup StrictHandles : FindHostInstanceWithWarning(h)
  \/ \E h \in Components : FindHostInstance(h)

SpecTools == Init /\ [][NextTools]_vars

\* ------------------------------------------------------ derived views
Frames == {stack[i] : i \in 1..Len(stack)}
Ids(q) == [i \in 1..Len(q) |-> q[i].id]
InQueue(id) == \E i \in 1..Len(queue) : queue[i].id = id
InApplied(id) == \E i \in 1..Len(applied) : applied[i] = id

\* The records of the queue no pass has applied yet, and the order in which
\* the passes observe all records enqueued so far.
Unapplied ==
  IF passState = "complete" THEN SubSeq(queue, Len(wip) + 1, Len(queue)) ELSE queue
Observed == applied \o Ids(Unapplied)

\* Call a encloses call b: b was made while a was active.
RECURSIVE Encloses(_, _)
Encloses(a, b) ==
  IF b = 0 \/ calls[b].outer = 0 THEN FALSE
  ELSE calls[b].outer = a \/ Encloses(a, calls[b].outer)

\* The step in which the innermost call resolves and stages its context.
Staged ==
  /\ stack # <<>> /\ Top.pc = "ctx"
  /\ Len(stack') = Len(stack) /\ stack'[Len(stack)].pc = "create"

\* ------------------------------------------------------ C1
\* C1 as stated: a call on a root with no prior commit sets context to the
\* resolved context; a call on a root with a prior commit sets pendingContext
\* and leaves context unchanged.
C1_ContextByCommit ==
  [][Staged =>
       LET ctx == getContextForSubtree(Top.parent)
       IN IF ~committed THEN context' = ctx
          ELSE pendingContext' = ctx /\ context' = context]_vars

\* C1 amended: a call on a root whose context is unset (no call has staged a
\* context yet) sets context to the resolved context and leaves pendingContext
\* alone; every other call, before or after the first commit, sets
\* pendingContext and leaves context unchanged; context then changes only in a
\* commit, which installs pendingContext; a root that has committed has its
\* context set.
C1_ContextByUnset ==
  [][/\ Staged =>
          LET ctx == getContextForSubtree(Top.parent)
          IN IF context = NoContext
             THEN context' = ctx /\ pendingContext' = pendingContext
             ELSE pendingContext' = ctx /\ context' = context
     /\ (context # NoContext /\ context' # context) =>
          (passState = "complete" /\ passState' = "idle" /\ context' = pendingContext)
     /\ committed => context # NoContext]_vars

\* A second call has staged its context before the first commit: the resolved
\* context went to pendingContext, context kept the first call's value.
C1_Witness ==
  /\ ~committed
  /\ \E f \in Frames :
       /\ f.pc = "create" /\ f.pre.context # NoContext
       /\ pendingContext = "ctxChild" /\ context = emptyContextObject

\* ------------------------------------------------------ C2
\* C2: a call whose context resolves, for any tree description including
\* null, appends exactly one update record (its own, carrying the tree
\* description) at the end of the root's queue, requests scheduling exactly
\* once and returns its deadline.
C2_OneUpdateOneRequest ==
  \A f \in Frames :
    /\ f.pc \in {"ctx", "create", "flush", "inFlush", "enqueue"} =>
         f.nEnq = 0 /\ f.nSched = 0
    /\ f.pc = "schedule" =>
         /\ f.nEnq = 1 /\ f.nSched = 0
         /\ queue # <<>> /\ queue[Len(queue)] = f.update
         /\ f.update.id = f.id /\ f.update.payload = f.element
    /\ f.pc = "inSchedule" => f.nEnq = 1 /\ f.nSched = 1
    /\ f.pc = "done" =>
         /\ f.nEnq = 1 /\ f.nSched = 1
         /\ f.ret = f.expirationTime /\ f.ret \in ExpTimes
    /\ getContextForSubtree(f.parent) # "NotAComponent" => f.pc # "threw"

\* An unmount request (null description) has returned its deadline after one
\* append and one scheduling request.
C2_Witness ==
  \E f \in Frames :
    f.pc = "done" /\ f.element = "null" /\ f.nEnq = 1 /\ f.nSched = 1 /\ f.ret = AsyncOffset

\* ------------------------------------------------------ C3
\* The second call of the scenario: T1, no parent, callback cb, made after a
\* first call that staged the empty context.
SecondCall(f) ==
  /\ f.id = 2 /\ f.element = "T1" /\ f.parent = "none" /\ f.callback = "cb"
  /\ f.pre.context = emptyContextObject

\* C3 as stated: the second call leaves the root's context and pendingContext
\* with the values they had before it.
C3_NoRestage ==
  \A f \in Frames :
    (SecondCall(f) /\ f.pc = "done") =>
      (context = f.pre.context /\ pendingContext = f.pre.pendingContext)

\* C3 amended: the second call appends its update, with cb attached, behind
\* the first call's; its staging leaves context unchanged but does write
\* pendingContext, which was null, with the canonical empty context (the value
\* context already holds).
C3_RestageSameValue ==
  \A f \in Frames :
    SecondCall(f) =>
      /\ f.pre.pendingContext = NoContext
      /\ f.pc = "create" =>
           /\ context = f.pre.context
           /\ pendingContext = emptyContextObject /\ pendingContext = context
      /\ f.pc = "schedule" =>
           /\ queue[Len(queue)] = f.update
           /\ f.update.callback = "cb" /\ f.update.payload = "T1"
           /\ \A i \in 1..Len(queue) : queue[i].id = 1 => i < Len(queue)
           /\ InQueue(1) \/ InApplied(1)

\* The second call has appended its record behind the first call's.
C3_Witness ==
  \E f \in Frames :
    /\ SecondCall(f) /\ f.pc = "schedule"
    /\ Len(queue) = 2 /\ queue[1].id = 1 /\ queue[1].payload = "T1"
    /\ queue[2].callback = "cb" /\ pendingContext = emptyContextObject

\* ------------------------------------------------------ C4
\* C4 as stated: when flushPassiveEffects runs, the call has not created its
\* update record yet.
C4_FlushBeforeCreate ==
  \A f \in Frames : f.pc = "flush" => f.update = NoUpdate

\* C4 amended: flushPassiveEffects runs after the call's update record is
\* created and before it is enqueued: while the flush runs the record exists
\* and is in no queue, and a record that is in the queue or applied belongs to
\* a call that is past its flush.
C4_FlushBeforeEnqueue ==
  \A f \in Frames :
    /\ f.pc \in {"flush", "inFlush"} =>
         /\ f.update # NoUpdate /\ f.update.id = f.id
         /\ f.nEnq = 0 /\ ~InQueue(f.id) /\ ~InApplied(f.id)
    /\ (InQueue(f.id) \/ InApplied(f.id)) => f.pc \in {"schedule", "inSchedule", "done"}

\* Outstanding side effects of a previous commit are being flushed inside a
\* call whose record is created and not enqueued.
C4_Witness ==
  \E f \in Frames :
    f.pc = "inFlush" /\ committed /\ f.update.id = f.id /\ ~InQueue(f.id)

\* ------------------------------------------------------ C5
\* C5 as stated: a call with a non-callable callback enqueues a record that
\* carries no callback.
C5_CallbackDropped ==
  \A f \in Frames :
    (f.callback = "notfn" /\ f.pc \in {"schedule", "inSchedule", "done"}) =>
      f.update.callback = "null"

\* C5 amended: a call with a non-callable callback is not fatal: it warns,
\* enqueues one record, requests scheduling and returns its deadline; the
\* record carries the non-callable value as its callback.
C5_CallbackKept ==
  \A f \in Frames :
    f.callback = "notfn" =>
      /\ f.pc # "threw"
      /\ f.pc \notin {"ctx", "create"} =>
           f.update.callback = "notfn" /\ warned["callback"] >= 1
      /\ f.pc = "schedule" => queue[Len(queue)].callback = "notfn"
      /\ f.pc = "done" => f.nEnq = 1 /\ f.nSched = 1 /\ f.ret = f.expirationTime

\* A call with a non-callable callback has returned, its record enqueued.
C5_Witness ==
  \E f \in Frames :
    /\ f.callback = "notfn" /\ f.pc = "done" /\ InQueue(f.id)
    /\ workPending /\ warned["callback"] = 1

C7_NeverDroppedNeverTwice ==
  LET obs == Observed
      un == Unapplied
      In(id) == \E i \in 1..Len(obs) : obs[i] = id
  IN /\ \A i, j \in 1..Len(obs) : i < j => obs[i] # obs[j]
     /\ \A id \in 1..Len(calls) :
          /\ calls[id].state = "returned" => In(id)
          /\ calls[id].state = "threw" => ~In(id)
     /\ \A f \in Frames : f.nEnq = (IF In(f.id) THEN 1 ELSE 0)
     /\ \A i \in 1..Len(un) :
          \/ workPending
          \/ passState = "render" /\ i <= Len(wip)
          \/ \E f \in Frames : f.pc = "schedule" /\ f.id = un[i].id

\* A record was enqueued and its call returned while a pass that did not take
\* it is in flight; the pass has applied its own records and a further pass is
\* requested.
C7_Witness ==
  /\ passState = "complete" /\ wip # <<>>
  /\ Len(queue) > Len(wip) /\ workPending
  /\ calls[queue[Len(queue)].id].state = "returned"
  /\ ~InApplied(queue[Len(queue)].id)

\* ------------------------------------------------------ C8
\* C8: a call whose parent handle has no internal association fails with
\* NotAComponent before it touches the root: context, pendingContext and the
\* queue are as they were when the call was made, nothing is enqueued and no
\* scheduling is requested.
C8_FailedCallChangesNothing ==
  \A f \in Frames :
    /\ f.parent \in {"foreign", "stale"} => f.pc \in {"ctx", "threw"}
    /\ f.pc = "threw" =>
         /\ f.parent \in {"foreign", "stale"} /\ f.err = "NotAComponent"
         /\ context = f.pre.context /\ pendingContext = f.pre.pendingContext
         /\ queue = f.pre.queue /\ workPending = f.pre.workPending
         /\ f.update = NoUpdate /\ f.nEnq = 0 /\ f.nSched = 0

\* A call with a foreign parent has failed on a root that already has a
\* context and a queued record.
C8_Witness ==
  \E f \in Frames :
    /\ f.pc = "threw" /\ f.parent = "foreign"
    /\ context # NoContext /\ queue # <<>>

\* ------------------------------------------------------ C9
Unmounted == "Invariant: Unable to find node on an unmounted component."
NotAReactComponent == "Invariant: Argument appears to not be a ReactComponent."

\* C9: findHostInstance on a handle with no internal node fails with an
\* invariant violation and returns no value: the unmounted-component message
\* when the handle has a callable render, the not-a-ReactComponent message
\* otherwise.
C9_UnassociatedHandleFails ==
  /\ found.component = "stale" => found.outcome = Unmounted
  /\ (found.component = "comp" /\ inst = "never") => found.outcome = Unmounted
  /\ found.component = "foreign" => found.outcome = NotAReactComponent
  /\ found.outcome \in {Unmounted, NotAReactComponent} =>
       \/ found.component \in {"stale", "foreign"}
       \/ found.component = "comp" /\ inst = "never"

\* findHostInstance has been called on the component of T1 before it was ever
\* mounted, while its mount is queued.
C9_Witness ==
  /\ found.component = "comp" /\ inst = "never" /\ queue # <<>>
  /\ found.outcome = Unmounted

\* ------------------------------------------------------ C10
\* C10: findHostInstance on the handle of a component that was mounted and
\* has unmounted returns null and does not fail.
C10_UnmountedReturnsNull ==
  (found.component = "comp" /\ inst = "unmounted") => found.outcome = "null"

\* T1 was committed, then the null description was committed, then
\* findHostInstance was called on the component of T1.
C10_Witness ==
  /\ found.component = "comp" /\ inst = "unmounted" /\ found.outcome = "null"
  /\ Len(applied) >= 2

C12_SyncNotLater ==
  \A f \in Frames :
    (f.entry.fn = "updateContainer" /\ f.pc = "done") =>
      /\ f.entry.sync => f.ret = Sync /\ f.ret <= f.entry.currentTime + AsyncOffset
      /\ ~f.entry.sync => f.ret = f.entry.currentTime + AsyncOffset /\ f.ret >= Sync

\* A call made inside a synchronous scope returns while the call that encloses
\* it, made outside any scope at the same time, holds the later deadline.
C12_Witness ==
  \E f, g \in Frames :
    /\ f.entry.fn = "updateContainer" /\ g.entry.fn = "updateContainer"
    /\ f.entry.sync /\ ~g.entry.sync /\ f.entry.currentTime = g.entry.currentTime
    /\ f.pc = "done" /\ f.ret < g.expirationTime

\* ------------------------------------------------------ C13
\* C13: for every component handle and every state of the warning
\* bookkeeping, findHostInstanceWithWarning has the outcome of
\* findHostInstance: the same returned value or the same failure.
C13_SameOutcome ==
  found.fn = "findHostInstanceWithWarning" =>
    found.outcome = findHostInstance(found.component)

\* A strict-mode component whose name was already warned about is looked up
\* again: no warning, the same instance.
C13_Witness ==
  /\ found.fn = "findHostInstanceWithWarning" /\ found.component = "strictParent"
  /\ found.outcome = "domStrict"
  /\ didWarnAboutFindNodeInStrictMode = ComponentNames

\* ------------------------------------------------------ C14
\* C14: a call made while a component renders is not blocked: whether or not
\* the nested-update warning is emitted for it, it stages its context, makes
\* and appends its record, requests scheduling and returns its deadline, as a
\* call made outside a render does.
C14_NestedNotBlocked ==
  \A f \in Frames :
    f.origin = "render" =>
      /\ f.pc # "threw"
      /\ f.pc # "ctx" =>
           /\ f.ctx = getContextForSubtree(f.parent)
           /\ IF f.pre.context = NoContext THEN context # NoContext
              ELSE f.pc = "create" => pendingContext = f.ctx
      /\ f.pc \notin {"ctx", "create"} =>
           f.update = [id |-> f.id, expirationTime |-> f.expirationTime,
                       payload |-> f.element,
                       callback |-> IF f.callback = "undefined" THEN "null"
                                    ELSE f.callback]
      /\ f.pc = "schedule" => queue # <<>> /\ queue[Len(queue)] = f.update
      /\ f.pc \in {"inSchedule", "done"} =>
           /\ f.nEnq = 1 /\ f.nSched = 1 /\ f.scheduled = f.expirationTime
           /\ f = Top => workPending /\ InQueue(f.id)
      /\ f.pc = "done" => f.ret = f.expirationTime

\* The render of the first pass has made two calls: the first was warned
\* about, the second, made after the warning, has returned its deadline.
C14_Witness ==
  /\ Len(stack) = 2 /\ stack[1].id = 1 /\ stack[1].pc = "inSchedule"
  /\ Top.id = 3 /\ Top.origin = "render" /\ Top.pc = "done"
  /\ calls[2].outer = 1 /\ calls[2].state = "returned"
  /\ warned["nested"] = 1 /\ passState = "render"

\* ------------------------------------------------------ C15
\* C15 as stated: each diagnostic (the warning about a callback that is not
\* callable, the nested-update warning, the strict-mode lookup warning) is
\* emitted at most once per key.
C15_EachAtMostOnce ==
  \A k \in DOMAIN warned : warned[k] <= 1

\* The step in which the innermost call makes its record.
Created ==
  /\ stack # <<>> /\ Top.pc = "create"
  /\ Len(stack') = Len(stack) /\ stack'[Len(stack)].pc = "flush"

\* C15 amended: the nested-update warning is emitted at most once, and has
\* been emitted exactly when didWarnAboutNestedUpdates is set; the strict-mode
\* lookup warning is emitted at most once per component name, and has been
\* emitted exactly for the names in didWarnAboutFindNodeInStrictMode; the
\* warning about a callback that is not callable is emitted by every call
\* that passes such a callback, however many there are.
C15_OncePerRecordedKey ==
  [][/\ warned'["nested"] = (IF didWarnAboutNestedUpdates' THEN 1 ELSE 0)
     /\ \A n \in ComponentNames :
          warned'[n] = (IF n \in didWarnAboutFindNodeInStrictMode' THEN 1 ELSE 0)
     /\ Created =>
          warned'["callback"] =
            warned["callback"] + (IF Top.callback \in {"undefined", "cb"} THEN 0 ELSE 1)
     /\ ~Created => warned'["callback"] = warned["callback"]]_vars

\* Two calls have passed a callback that is not callable and both were warned
\* about; a render has made a call and was warned once; both component names
\* were warned about once and a strict-mode component is looked up again.
C15_Witness ==
  /\ warned["callback"] = 2 /\ warned["nested"] = 1
  /\ warned["Widget"] = 1 /\ warned["Component"] = 1
  /\ found.fn = "findHostInstanceWithWarning" /\ found.component = "strictChild"

\* ------------------------------------------------------ C16
\* C16: getContextForSubtree called with an absent parent returns the
\* canonical empty context object; any two such calls return the same object,
\* whatever calls happen in between.
C16_CanonicalEmptyContext ==
  /\ \A f \in Frames :
       (f.parent = "none" /\ f.pc # "ctx") =>
         /\ f.ctx = emptyContextObject
         /\ f.pc = "create" =>
              (IF f.pre.context = NoContext THEN context ELSE pendingContext)
                = emptyContextObject
  /\ \A f, g \in Frames :
       (f.parent = "none" /\ g.parent = "none" /\ f.pc # "ctx" /\ g.pc # "ctx") =>
         f.ctx = g.ctx

\* The third call, made with no parent inside the second, which also had no
\* parent, has resolved its context: both hold the object the root got from
\* the first call.
C16_Witness ==
  /\ Len(stack) = 2 /\ Top.id = 3 /\ Top.pc = "create"
  /\ stack[1].parent = "none" /\ Top.parent = "none"
  /\ Top.ctx = stack[1].ctx /\ Top.ctx = context /\ pendingContext = context

\* ------------------------------------------------------ C17
\* C17: the host-instance lookup that injectIntoDevTools registers delegates
\* to the findFiberByHostInstance the config supplies and returns null when
\* the config supplies none; injectIntoDevTools does not fail when the lookup
\* is missing and returns the inspection tool's registration result.
C17_ReverseLookupOptional ==
  /\ found.fn = "findFiberByHostInstance" =>
       found.outcome = (IF injected.lookup = "withLookup"
                        THEN findFiberByHostInstance(found.component)
                        ELSE "null")
  /\ found.fn = "injectIntoDevTools" =>
       /\ injected.lookup \in {"withLookup", "withoutLookup"}
       /\ found.outcome = (IF injected.registered THEN "true" ELSE "false")

\* A config without a reverse lookup was registered successfully; the
\* inspection tool looks up a host instance and gets null.
C17_Witness ==
  /\ found.fn = "findFiberByHostInstance" /\ found.component = "domComp"
  /\ injected = [lookup |-> "withoutLookup", registered |-> TRUE]
  /\ found.outcome = "null"

\* ------------------------------------------------------ C18
\* C18: in every call the record is appended before scheduling is requested:
\* when scheduleWork is invoked the call's record is in the root's queue, and
\* the first pass that the scheduler begins inside that scheduleWork takes it.
C18_EnqueuedBeforeScheduled ==
  \A i \in 1..Len(stack) :
    LET f == stack[i]
    IN /\ f.pc = "schedule" =>
            /\ InQueue(f.id)
            /\ i = Len(stack) => queue[Len(queue)] = f.update
       /\ f.pc = "inSchedule" => InQueue(f.id) \/ InApplied(f.id)
       /\ (f.pc = "inSchedule" /\ passState = "render" /\ passOwner = i) =>
            \/ \E j \in 1..Len(wip) : wip[j] = f.update
            \/ InApplied(f.id) /\ ~InQueue(f.id)

\* The scheduler has begun a pass inside the scheduleWork of the second call:
\* the pass has taken the call's record.
C18_Witness ==
  /\ Len(stack) = 1 /\ Top.id = 2 /\ Top.pc = "inSchedule"
  /\ passState = "render" /\ passOwner = 1
  /\ wip # <<>> /\ wip[Len(wip)] = Top.update

\* ------------------------------------------------------ C19
\* C19: every call uses one deadline throughout: the deadline of the record it
\* enqueues, the deadline it passes to scheduleWork and the value it returns
\* are equal; for updateContainer it is the value computed from the current
\* time, for updateContainerAtExpirationTime the value the caller supplied.
C19_OneDeadline ==
  \A f \in Frames :
    /\ f.entry.fn = "updateContainer" =>
         f.expirationTime = computeExpirationForFiber(f.entry.currentTime, f.entry.sync)
    /\ f.pc \in {"flush", "inFlush", "enqueue", "schedule", "inSchedule", "done"} =>
         f.update.expirationTime = f.expirationTime
    /\ \A i \in 1..Len(queue) :
         queue[i].id = f.id => queue[i].expirationTime = f.expirationTime
    /\ f.pc \in {"inSchedule", "done"} => f.scheduled = f.expirationTime
    /\ f.pc = "done" =>
         f.ret = f.update.expirationTime /\ f.ret = f.scheduled

\* A call of updateContainerAtExpirationTime with the most urgent deadline has
\* returned inside a call of updateContainer that holds a later deadline.
C19_Witness ==
  /\ Len(stack) = 2
  /\ stack[1].entry.fn = "updateContainer" /\ stack[1].expirationTime = AsyncOffset
  /\ Top.entry.fn = "updateContainerAtExpirationTime" /\ Top.pc = "done"
  /\ Top.ret = Sync /\ Top.scheduled = Sync /\ Top.update.expirationTime = Sync

\* ------------------------------------------------------ C20
\* C20: on a root whose context is set, after any sequence of calls, calls
\* made by side effects flushed inside another call included, pendingContext
\* is the context that was resolved for the record appended last. The record
\* appended last is the one of the innermost call, at the moment that call
\* has appended it and has not yet requested scheduling.
C20_PendingContextOfLastRecord ==
  \A f \in Frames :
    (f.pc = "schedule" /\ f.pre.context # NoContext) =>
      /\ queue # <<>> /\ queue[Len(queue)] = f.update
      /\ pendingContext = f.ctx

====
